---- MODULE Spec2Model ----
(***************************************************************************)
(* State-machine model of script.js: the selection store (a Map kept in    *)
(* insertion order), its localStorage persistence through JSON, the card   *)
(* and chip projections, the category filter with its catalog fetch, and   *)
(* the chat / routine-generation pipeline with its conversation log.       *)
(* and the hover tooltip with its timer and animation-frame callbacks.     *)
(*                                                                         *)
(* JavaScript values are tagged records; JSON text is a sequence of        *)
(* lexemes, produced by JSONstringify and read back by a recursive-descent *)
(* JSONparse.  Every event handler is one action: a handler runs to        *)
(* completion, and an async handler is cut at its await on the network.    *)
(***************************************************************************)
EXTENDS Integers, Sequences, FiniteSets, TLC

(***************************************************************************)
(* Bounds of the model.                                                    *)
(***************************************************************************)
NumProducts == 2        \* products in the catalog
MaxPendingFetches == 2  \* catalog fetches outstanding at once
MaxSubmissions == 2     \* chat + routine submissions started in a session
MaxAdvisories == 1      \* empty-selection advisory bubbles in a session
MaxToggleRun == 3       \* length of a run of toggles that is tracked
MaxCallbacks == 2       \* tooltip timers, and tooltip frames, pending at once
MaxSessionRequests == 1 \* requests started in a session that also selects

(***************************************************************************)
(* JavaScript values.                                                      *)
(***************************************************************************)
JUndefined == [t |-> "undefined"]
JNull == [t |-> "null"]
JNaN == [t |-> "nan"]
JNum(n) == [t |-> "num", n |-> n]
JStr(s) == [t |-> "str", s |-> s]
JArr(elems) == [t |-> "arr", e |-> elems]
\* an object is its own properties in insertion order, as <<key, value>> pairs
JObj(props) == [t |-> "obj", p |-> props]

Range(s) == {s[i] : i \in 1..Len(s)}

\* obj.key ; reading a property of null or undefined is a TypeError, which the
\* callers test with IsNullish before they read
IsNullish(v) == v.t \in {"null", "undefined"}
GetProp(v, key) ==
    IF v.t = "obj" /\ \E i \in 1..Len(v.p) : v.p[i][1] = key
    THEN v.p[CHOOSE i \in 1..Len(v.p) : v.p[i][1] = key][2]
    ELSE JUndefined

Digits == <<"0", "1", "2", "3", "4", "5", "6", "7", "8", "9">>
RECURSIVE NumStr(_)
\* String(n) of a non-negative integer
NumStr(n) == IF n < 10 THEN Digits[n + 1]
             ELSE NumStr(n \div 10) \o Digits[(n % 10) + 1]

\* `${v}` in a template literal
TemplateStr(v) ==
    CASE v.t = "num" -> NumStr(v.n)
      [] v.t = "str" -> v.s
      [] v.t = "null" -> "null"
      [] v.t = "nan" -> "NaN"
      [] v.t = "undefined" -> "undefined"
      [] OTHER -> "[object Object]"

\* Number(s) of an attribute string: the integer it spells, NaN otherwise
MaxNumber == NumProducts + 1
ToNumber(s) ==
    IF \E n \in 0..MaxNumber : NumStr(n) = s
    THEN JNum(CHOOSE n \in 0..MaxNumber : NumStr(n) = s)
    ELSE JNaN

\* a === b ; NaN is not equal to itself
StrictEq(a, b) == a.t # "nan" /\ a = b
\* SameValueZero(a, b), the key comparison of Map
SameValueZero(a, b) == a = b

(***************************************************************************)
(* Map: entries <<key, value>> in insertion order.                         *)
(***************************************************************************)
MapHas(m, k) == \E i \in 1..Len(m) : SameValueZero(m[i][1], k)
MapIndex(m, k) == CHOOSE i \in 1..Len(m) : SameValueZero(m[i][1], k)
MapSet(m, k, v) ==
    IF MapHas(m, k)
    THEN [m EXCEPT ![MapIndex(m, k)] = <<k, v>>]
    ELSE Append(m, <<k, v>>)
MapDelete(m, k) ==
    IF MapHas(m, k)
    THEN LET j == MapIndex(m, k) IN SubSeq(m, 1, j - 1) \o SubSeq(m, j + 1, Len(m))
    ELSE m
MapValues(m) == [i \in 1..Len(m) |-> m[i][2]]
MapKeys(m) == [i \in 1..Len(m) |-> m[i][1]]

(***************************************************************************)
(* JSON text as a sequence of lexemes.                                     *)
(***************************************************************************)
TPunct(c) == [k |-> "punct", s |-> c, n |-> 0]
TString(s) == [k |-> "string", s |-> s, n |-> 0]
TNumber(n) == [k |-> "number", s |-> "", n |-> n]
TNullLit == [k |-> "null", s |-> "", n |-> 0]

RECURSIVE JSONstringify(_)
RECURSIVE StringifyElems(_, _)
RECURSIVE StringifyProps(_, _)
\* JSON.stringify(v): the lexemes of the text
JSONstringify(v) ==
    CASE v.t = "num" -> <<TNumber(v.n)>>
      [] v.t = "str" -> <<TString(v.s)>>
      [] v.t = "arr" -> <<TPunct("[")>> \o StringifyElems(v.e, 1) \o <<TPunct("]")>>
      [] v.t = "obj" -> <<TPunct("{")>> \o StringifyProps(v.p, TRUE) \o <<TPunct("}")>>
      [] OTHER -> <<TNullLit>>
\* the elements from index i on; undefined in an array is written as null
StringifyElems(elems, i) ==
    IF i > Len(elems) THEN <<>>
    ELSE (IF i > 1 THEN <<TPunct(",")>> ELSE <<>>)
         \o JSONstringify(elems[i])
         \o StringifyElems(elems, i + 1)
\* the properties left to write; a property whose value is undefined is skipped
StringifyProps(props, first) ==
    IF props = <<>> THEN <<>>
    ELSE IF Head(props)[2].t = "undefined" THEN StringifyProps(Tail(props), first)
    ELSE (IF first THEN <<>> ELSE <<TPunct(",")>>)
         \o <<TString(Head(props)[1]), TPunct(":")>>
         \o JSONstringify(Head(props)[2])
         \o StringifyProps(Tail(props), FALSE)

ParseFail == [ok |-> FALSE, v |-> JUndefined, i |-> 0]
ParseOk(v, i) == [ok |-> TRUE, v |-> v, i |-> i]
RECURSIVE ParseValue(_, _)
RECURSIVE ParseElems(_, _, _)
RECURSIVE ParseMembers(_, _, _)
\* one JSON value starting at lexeme i; .i is the lexeme after it
ParseValue(toks, i) ==
    IF i > Len(toks) THEN ParseFail
    ELSE LET tk == toks[i] IN
         CASE tk.k = "null" -> ParseOk(JNull, i + 1)
           [] tk.k = "number" -> ParseOk(JNum(tk.n), i + 1)
           [] tk.k = "string" -> ParseOk(JStr(tk.s), i + 1)
           [] tk = TPunct("[") ->
                IF i + 1 <= Len(toks) /\ toks[i + 1] = TPunct("]")
                THEN ParseOk(JArr(<<>>), i + 2)
                ELSE ParseElems(toks, i + 1, <<>>)
           [] tk = TPunct("{") ->
                IF i + 1 <= Len(toks) /\ toks[i + 1] = TPunct("}")
                THEN ParseOk(JObj(<<>>), i + 2)
                ELSE ParseMembers(toks, i + 1, <<>>)
           [] OTHER -> ParseFail
ParseElems(toks, i, acc) ==
    LET r == ParseValue(toks, i) IN
    IF ~r.ok \/ r.i > Len(toks) THEN ParseFail
    ELSE IF toks[r.i] = TPunct(",") THEN ParseElems(toks, r.i + 1, Append(acc, r.v))
    ELSE IF toks[r.i] = TPunct("]") THEN ParseOk(JArr(Append(acc, r.v)), r.i + 1)
    ELSE ParseFail
ParseMembers(toks, i, acc) ==
    IF i + 1 > Len(toks) \/ toks[i].k # "string" \/ toks[i + 1] # TPunct(":")
    THEN ParseFail
    ELSE LET r == ParseValue(toks, i + 2)
             \* a repeated key keeps its first position and takes the last value
             acc2 == MapSet(acc, toks[i].s, r.v)
         IN  IF ~r.ok \/ r.i > Len(toks) THEN ParseFail
             ELSE IF toks[r.i] = TPunct(",") THEN ParseMembers(toks, r.i + 1, acc2)
             ELSE IF toks[r.i] = TPunct("}") THEN ParseOk(JObj(acc2), r.i + 1)
             ELSE ParseFail
\* JSON.parse(text): .ok is FALSE where it throws a SyntaxError
JSONparse(toks) ==
    LET r == ParseValue(toks, 1) IN
    IF r.ok /\ r.i = Len(toks) + 1 THEN [ok |-> TRUE, v |-> r.v]
    ELSE [ok |-> FALSE, v |-> JUndefined]

\* the text that the lexemes spell
LexemeStr(tk) ==
    CASE tk.k = "punct" -> tk.s
      [] tk.k = "string" -> "\"" \o tk.s \o "\""
      [] tk.k = "number" -> NumStr(tk.n)
      [] OTHER -> "null"
RECURSIVE JoinLexemes(_)
JoinLexemes(toks) ==
    IF toks = <<>> THEN "" ELSE LexemeStr(Head(toks)) \o JoinLexemes(Tail(toks))

(***************************************************************************)
(* The catalog that products.json serves: NumProducts records of the shape *)
(* the script reads, the first two in one category and the rest in the     *)
(* other.                                                                  *)
(***************************************************************************)
CategoryOf(i) == IF i <= 2 THEN "cleansers" ELSE "moisturizers"
Product(i) ==
    JObj(<< <<"id", JNum(i)>>,
            <<"name", JStr("name" \o NumStr(i))>>,
            <<"brand", JStr("brand" \o NumStr(i))>>,
            <<"category", JStr(CategoryOf(i))>>,
            <<"image", JStr("img" \o NumStr(i))>>,
            <<"description", JStr("desc" \o NumStr(i))>> >>)
Catalog == [i \in 1..NumProducts |-> Product(i)]
\* the values of the category <select>; "" is its initial placeholder option
CategoryOptions == {"cleansers", "moisturizers"}

RECURSIVE SelectSeq2(_, _)
\* array.filter(test), with the test given as the set of values that pass
SelectSeq2(s, pass) ==
    IF s = <<>> THEN <<>>
    ELSE (IF Head(s) \in pass THEN <<Head(s)>> ELSE <<>>) \o SelectSeq2(Tail(s), pass)

VARIABLES
    selectedProducts,       \* the Map id -> product record
    storage,                \* localStorage item "selectedProducts"
    chips,                  \* selectedProductsList: placeholder or one chip per value
    lastDisplayedProducts,  \* window.__lastDisplayedProducts
    cards,                  \* the .product-card elements of productsContainer
    categoryValue,          \* categoryFilter.value
    pendingFetches,         \* change handlers suspended in loadProducts()
    conversationMessages,   \* the conversation log
    chatWindow,             \* the transcript: one {role, text} per bubble
    sendBtnDisabled,        \* sendBtn.disabled
    generateBtnDisabled,    \* generateBtn.disabled
    chatCall,               \* the submit handler suspended in sendMessageToOpenAI
    genCall,                \* the generate handler suspended in sendMessageToOpenAI
    requestsSent,           \* POSTs issued to the worker so far
    logOwner,               \* for each log turn, the submission that appended it
    bubbleOwner,            \* for each bubble, the submission whose placeholder it is
    productTooltip,         \* the tooltip element: style.display, style.opacity, text
    hideTimers,             \* setTimeout callbacks of hideTooltip not yet run
    fadeFrames,             \* requestAnimationFrame callbacks not yet run
    hover,                  \* the card the pointer is in, 0 when in none
    lastRun,                \* the handler that ran last, with what it was given
    toggleRun,              \* the current run of card clicks on one id
    writeHistory            \* the writes of the item since the page was loaded

selVars == <<selectedProducts, storage, chips, lastDisplayedProducts, cards,
             categoryValue, pendingFetches, toggleRun, writeHistory>>
chatVars == <<conversationMessages, chatWindow, sendBtnDisabled, generateBtnDisabled,
              chatCall, genCall, requestsSent, logOwner, bubbleOwner>>
tipVars == <<productTooltip, hideTimers, fadeFrames, hover>>
vars == <<selVars, chatVars, tipVars, lastRun>>

(***************************************************************************)
(* Persistence: saveSelectedProducts and loadSelectedFromStorage.          *)
(***************************************************************************)
NoItem == [present |-> FALSE, text |-> <<>>]
Item(text) == [present |-> TRUE, text |-> text]

\* saveSelectedProducts writing the keys of the Map instead of its values
saveSelectedKeys(store, item, writeOk) ==
    IF writeOk THEN Item(JSONstringify(JArr(MapKeys(store)))) ELSE item

\* the item after saveSelectedProducts(); setItem may throw (quota), which is
\* caught and logged, and then the item is what it was
saveSelectedProducts(store, item, writeOk) ==
    IF writeOk THEN Item(JSONstringify(JArr(MapValues(store)))) ELSE item

\* saveSelectedProducts without its try/catch: a failed write raises to the caller
SaveRaisesUncaught(writeOk) == ~writeOk

\* whether saveSelectedProducts() raises to its caller: the catch block takes
\* every exception of the write and only logs it
SaveRaises(writeOk) == FALSE

RECURSIVE ForEachSet(_, _)
\* arr.forEach((p) => selectedProducts.set(p.id, p)); p.id of null throws
ForEachSet(elems, m) ==
    IF elems = <<>> THEN [store |-> m, threw |-> FALSE]
    ELSE IF IsNullish(Head(elems)) THEN [store |-> m, threw |-> TRUE]
    ELSE ForEachSet(Tail(elems), MapSet(m, GetProp(Head(elems), "id"), Head(elems)))

\* the Map after loadSelectedFromStorage(); .threw says the catch block ran
loadSelectedFromStorage(item, store) ==
    IF ~item.present \/ item.text = <<>>
    THEN [store |-> store, threw |-> FALSE]
    ELSE LET arr == JSONparse(item.text) IN
         IF ~arr.ok THEN [store |-> store, threw |-> TRUE]
         ELSE IF arr.v.t # "arr" THEN [store |-> <<>>, threw |-> TRUE]
         ELSE ForEachSet(arr.v.e, <<>>)

(***************************************************************************)
(* Projections: the chips and the selected marker of the cards.            *)
(***************************************************************************)
Chip(p) == [dataId |-> TemplateStr(GetProp(p, "id")),
            name |-> TemplateStr(GetProp(p, "name")),
            brand |-> TemplateStr(GetProp(p, "brand"))]
\* renderSelectedProducts listing the chips from the newest entry to the oldest
renderSelectedReversed(store) ==
    IF Len(store) = 0
    THEN [placeholder |-> TRUE, list |-> <<>>]
    ELSE [placeholder |-> FALSE,
          list |-> [i \in 1..Len(store) |-> Chip(store[Len(store) + 1 - i][2])]]

\* renderSelectedProducts(): the placeholder, or one chip per entry of the Map
renderSelectedProducts(store) ==
    IF Len(store) = 0
    THEN [placeholder |-> TRUE, list |-> <<>>]
    ELSE [placeholder |-> FALSE, list |-> [i \in 1..Len(store) |-> Chip(store[i][2])]]

\* productsContainer.querySelector(`.product-card[data-id="${id}"]`): the index
\* of the first such card, 0 when there is none
QueryCard(cs, id) ==
    LET sel == TemplateStr(id) IN
    IF \E i \in 1..Len(cs) : cs[i].dataId = sel
    THEN CHOOSE i \in 1..Len(cs) :
            cs[i].dataId = sel /\ \A j \in 1..(i - 1) : cs[j].dataId # sel
    ELSE 0
SetCardClass(cs, i, on) == IF i = 0 THEN cs ELSE [cs EXCEPT ![i].selected = on]

\* markSelectedCards marking nothing
markNoCards(store, cs) == cs

markSelectedCards(store, cs) ==
    [i \in 1..Len(cs) |->
        IF \E e \in 1..Len(store) : QueryCard(cs, store[e][1]) = i
        THEN [cs[i] EXCEPT !.selected = TRUE]
        ELSE cs[i]]

\* the cards that displayProducts(products) leaves in productsContainer
RenderCards(products) ==
    [i \in 1..Len(products) |->
        [dataId |-> TemplateStr(GetProp(products[i], "id")), selected |-> FALSE]]
displayProducts(products, store) ==
    [displayed |-> [defined |-> TRUE, list |-> products],
     cards |-> markSelectedCards(store, RenderCards(products))]

\* window.__lastDisplayedProducts || []
DisplayedOrEmpty(d) == IF d.defined THEN d.list ELSE <<>>
\* products.find((p) => p.id === id): its index, 0 when there is none
FindProduct(products, id) ==
    IF \E i \in 1..Len(products) : StrictEq(GetProp(products[i], "id"), id)
    THEN CHOOSE i \in 1..Len(products) :
            /\ StrictEq(GetProp(products[i], "id"), id)
            /\ \A j \in 1..(i - 1) : ~StrictEq(GetProp(products[j], "id"), id)
    ELSE 0

\* toggleSelect without its deselect branch
toggleSelectNeverDeletes(store, cs, displayed, productId, card) ==
    LET products == DisplayedOrEmpty(displayed)
        at == FindProduct(products, productId)
    IN  IF at = 0 THEN [found |-> FALSE, store |-> store, cards |-> cs]
        ELSE [found |-> TRUE, store |-> MapSet(store, productId, products[at]),
              cards |-> SetCardClass(cs, card, TRUE)]

\* toggleSelect(productId, cardElement), up to its save and render
toggleSelect(store, cs, displayed, productId, card) ==
    LET products == DisplayedOrEmpty(displayed)
        at == FindProduct(products, productId)
    IN  IF at = 0 THEN [found |-> FALSE, store |-> store, cards |-> cs]
        ELSE IF MapHas(store, productId)
        THEN [found |-> TRUE, store |-> MapDelete(store, productId),
              cards |-> SetCardClass(cs, card, FALSE)]
        ELSE [found |-> TRUE, store |-> MapSet(store, productId, products[at]),
              cards |-> SetCardClass(cs, card, TRUE)]

(***************************************************************************)
(* The chat pipeline.                                                      *)
(***************************************************************************)
SystemPrompt == "You are a helpful L'Oreal assistant that provides step-by-step routines and product guidance when asked. Keep answers concise and user-friendly. Keep conversations to those beauty-related topics and don't respond to unrelated questions."
SystemMessage == [role |-> "system", content |-> SystemPrompt]
Thinking == "...thinking..."
Advisory == "Please select at least one product to generate a routine."
RoutineInstruction == "Here are the selected products as JSON. Generate a step-by-step routine using these products, include application order, timing (AM/PM), any compatibility notes or cautions, and a short explanation for each step. Respond in plain text.\n\nSELECTED_PRODUCTS_JSON:\n"

\* what the user may have typed into #userInput, character by character
UserInputs == { <<>>, <<" ", "\t">>, <<"h", "i">>, <<" ", "h", "i", "\n">>, <<"y", "o">> }
WhiteSpace == {" ", "\t", "\n"}
RECURSIVE TrimStart(_)
TrimStart(cs) ==
    IF cs # <<>> /\ Head(cs) \in WhiteSpace THEN TrimStart(Tail(cs)) ELSE cs
RECURSIVE TrimEnd(_)
TrimEnd(cs) ==
    IF cs # <<>> /\ cs[Len(cs)] \in WhiteSpace
    THEN TrimEnd(SubSeq(cs, 1, Len(cs) - 1)) ELSE cs
\* the input taken as typed
TrimNothing(cs) == cs

\* input.value.trim()
Trim(cs) == TrimEnd(TrimStart(cs))
RECURSIVE CharsToStr(_)
CharsToStr(cs) == IF cs = <<>> THEN "" ELSE Head(cs) \o CharsToStr(Tail(cs))

\* what the worker may do with a request
Replies == {"hello", "sure"}
Responses ==
    [kind : {"ok"}, status : {200}, text : Replies]
      \cup [kind : {"http"}, status : {500}, text : {"boom"}]
      \cup [kind : {"network"}, status : {0}, text : {"Failed to fetch"}]

\* the outcome of sendMessageToOpenAI for a response: the reply, or the message
\* of the Error it throws
sendMessageToOpenAI(resp) ==
    CASE resp.kind = "ok" -> [threw |-> FALSE, text |-> resp.text]
      [] resp.kind = "http" ->
            [threw |-> TRUE,
             text |-> "Worker error: " \o NumStr(resp.status) \o " " \o resp.text]
      [] OTHER -> [threw |-> TRUE, text |-> resp.text]

appendChatMessage(window, role, text) == Append(window, [role |-> role, text |-> text])

\* the "replace the temporary thinking bubble" block of both handlers
ReplaceLastAssistant(window, aiText) ==
    LET msgs == {i \in 1..Len(window) : window[i].role = "assistant"} IN
    IF msgs # {}
    THEN LET last == CHOOSE i \in msgs : \A j \in msgs : j <= i IN
         [window EXCEPT ![last].text = aiText]
    ELSE appendChatMessage(window, "assistant", aiText)

PushMessage(log, role, content) == Append(log, [role |-> role, content |-> content])

\* the try / catch of both handlers once the request has settled
SettleWindow(window, outcome, errorPrefix) ==
    IF outcome.threw
    THEN appendChatMessage(window, "assistant", errorPrefix \o outcome.text)
    ELSE ReplaceLastAssistant(window, outcome.text)
\* the reply written over the last turn of the log instead of appended
SettleLogOverwrite(log, outcome) ==
    IF outcome.threw THEN log
    ELSE [log EXCEPT ![Len(log)] = [role |-> "assistant", content |-> outcome.text]]

SettleLog(log, outcome) ==
    IF outcome.threw THEN log ELSE PushMessage(log, "assistant", outcome.text)

getSelectedProductsArray(store) ==
    [i \in 1..Len(store) |->
        LET p == store[i][2] IN
        JObj(<< <<"id", GetProp(p, "id")>>,
                <<"brand", GetProp(p, "brand")>>,
                <<"name", GetProp(p, "name")>>,
                <<"category", GetProp(p, "category")>>,
                <<"image", GetProp(p, "image")>>,
                <<"description", GetProp(p, "description")>> >>)]
\* the prompt of a routine request (the indentation of the JSON is left out)
UserInstruction(items) == RoutineInstruction \o JoinLexemes(JSONstringify(JArr(items)))
GenerateBubble(items) ==
    "Generate routine for " \o NumStr(Len(items)) \o " selected product(s)."

\* a suspended handler: its locals, the log as it was when it was entered, the
\* messages it sent, and whether the other handler was suspended at that time
IdleCall == [pc |-> "idle", sub |-> 0, text |-> "", before |-> <<>>, body |-> <<>>,
             alone |-> TRUE]
NoRun == [active |-> FALSE, id |-> JUndefined, n |-> 0, base |-> <<>>]
\* the tooltip as created: no inline style, no text
NewTooltip == [display |-> "", opacity |-> "", text |-> ""]
\* the pointer is in no card; .reentry says a hide timer was pending at the enter
NoHover == [card |-> 0, reentry |-> FALSE]

(***************************************************************************)
(* The state after the script has run: the item found in storage is read.  *)
(***************************************************************************)
ValidStores ==
    { <<>>, <<Product(1)>>, <<Product(2), Product(1)>> }
InitialStorage ==
    {NoItem, Item(<<>>)}
      \cup {Item(JSONstringify(JArr(s))) : s \in ValidStores}
      \* truncated text, an object, null, and null after a valid record
      \cup {Item(SubSeq(JSONstringify(JArr(<<Product(1)>>)), 1, 5)),
            Item(JSONstringify(Product(1))),
            Item(JSONstringify(JNull)),
            Item(JSONstringify(JArr(<<Product(1), JNull>>)))}

Init ==
    /\ storage \in InitialStorage
    /\ selectedProducts = loadSelectedFromStorage(storage, <<>>).store
    /\ chips = renderSelectedProducts(selectedProducts)
    /\ lastDisplayedProducts = [defined |-> FALSE, list |-> <<>>]
    /\ cards = <<>>
    /\ categoryValue = ""
    /\ pendingFetches = <<>>
    /\ conversationMessages = <<SystemMessage>>
    /\ chatWindow = <<>>
    /\ sendBtnDisabled = FALSE
    /\ generateBtnDisabled = FALSE
    /\ chatCall = IdleCall
    /\ genCall = IdleCall
    /\ requestsSent = 0
    /\ logOwner = <<0>>
    /\ bubbleOwner = <<>>
    /\ productTooltip = NewTooltip
    /\ hideTimers = 0
    /\ fadeFrames = 0
    /\ hover = NoHover
    /\ lastRun = [op |-> "load", prev |-> <<>>]
    /\ toggleRun = NoRun
    /\ writeHistory = "none"

\* the page is loaded again: the script runs from its first line, and only
\* localStorage is kept
Reload ==
    /\ storage' = storage
    /\ selectedProducts' = loadSelectedFromStorage(storage, <<>>).store
    /\ chips' = renderSelectedProducts(selectedProducts')
    /\ lastDisplayedProducts' = [defined |-> FALSE, list |-> <<>>]
    /\ cards' = <<>>
    /\ categoryValue' = ""
    /\ pendingFetches' = <<>>
    /\ conversationMessages' = <<SystemMessage>>
    /\ chatWindow' = <<>>
    /\ sendBtnDisabled' = FALSE
    /\ generateBtnDisabled' = FALSE
    /\ chatCall' = IdleCall
    /\ genCall' = IdleCall
    /\ requestsSent' = 0
    /\ logOwner' = <<0>>
    /\ bubbleOwner' = <<>>
    /\ productTooltip' = NewTooltip
    /\ hideTimers' = 0
    /\ fadeFrames' = 0
    /\ hover' = NoHover
    /\ lastRun' = [op |-> "load", prev |-> selectedProducts]
    /\ toggleRun' = NoRun
    /\ writeHistory' = "none"

(***************************************************************************)
(* Selection handlers.                                                     *)
(***************************************************************************)
\* the run of clicks on one id that the click on id continues or starts
NextToggleRun(run, store, id) ==
    IF run.active /\ run.id = id /\ run.n < MaxToggleRun
    THEN [run EXCEPT !.n = run.n + 1]
    ELSE IF ~MapHas(store, id)
    THEN [active |-> TRUE, id |-> id, n |-> 1, base |-> store]
    ELSE NoRun

\* the writes since the load after one more: "none" before the first mutation,
\* "ok" while every write has succeeded, "failed" once one has failed
NextWriteHistory(history, writeOk) ==
    IF writeOk /\ history # "failed" THEN "ok" ELSE "failed"

\* click on the c-th card
CardClick(c, writeOk) ==
    /\ c \in 1..Len(cards)
    /\ LET id == ToNumber(cards[c].dataId)
           r == toggleSelect(selectedProducts, cards, lastDisplayedProducts, id, c)
       IN  /\ selectedProducts' = r.store
           /\ cards' = r.cards
           /\ storage' = IF r.found
                         THEN saveSelectedProducts(r.store, storage, writeOk)
                         ELSE storage
           /\ chips' = IF r.found /\ ~SaveRaises(writeOk)
                       THEN renderSelectedProducts(r.store)
                       ELSE chips
           /\ toggleRun' = IF r.found THEN NextToggleRun(toggleRun, selectedProducts, id)
                           ELSE toggleRun
           /\ writeHistory' = IF r.found THEN NextWriteHistory(writeHistory, writeOk)
                              ELSE writeHistory
           /\ lastRun' = [op |-> "toggleSelect", writeOk |-> writeOk, id |-> id,
                          prev |-> selectedProducts,
                          threw |-> r.found /\ SaveRaises(writeOk),
                          effects |-> IF r.found THEN <<"save", "render">> ELSE <<>>]
    /\ UNCHANGED <<lastDisplayedProducts, categoryValue, pendingFetches>>
    /\ UNCHANGED <<chatVars, tipVars>>

\* a call toggleSelect(id, card of that id) for any catalog id, displayed or not
DirectToggle(id, writeOk) ==
    /\ id \in {JNum(i) : i \in 1..NumProducts}
    /\ LET c == QueryCard(cards, id)
           r == toggleSelect(selectedProducts, cards, lastDisplayedProducts, id, c)
       IN  /\ selectedProducts' = r.store
           /\ cards' = r.cards
           /\ storage' = IF r.found
                         THEN saveSelectedProducts(r.store, storage, writeOk)
                         ELSE storage
           /\ chips' = IF r.found /\ ~SaveRaises(writeOk)
                       THEN renderSelectedProducts(r.store)
                       ELSE chips
           /\ toggleRun' = NoRun
           /\ writeHistory' = IF r.found THEN NextWriteHistory(writeHistory, writeOk)
                              ELSE writeHistory
           /\ lastRun' = [op |-> "toggleCall", id |-> id, writeOk |-> writeOk,
                          present |-> MapHas(selectedProducts, id),
                          resolvable |-> r.found, prev |-> selectedProducts]
    /\ UNCHANGED <<lastDisplayedProducts, categoryValue, pendingFetches>>
    /\ UNCHANGED <<chatVars, tipVars>>

\* click on the remove button of the c-th chip
ChipRemoveClick(c, writeOk) ==
    /\ c \in 1..Len(chips.list)
    /\ LET id == ToNumber(chips.list[c].dataId)
           store == MapDelete(selectedProducts, id)
       IN  /\ selectedProducts' = store
           /\ cards' = SetCardClass(cards, QueryCard(cards, id), FALSE)
           /\ chips' = renderSelectedProducts(store)
           /\ storage' = saveSelectedProducts(store, storage, writeOk)
    /\ toggleRun' = NoRun
    /\ writeHistory' = NextWriteHistory(writeHistory, writeOk)
    /\ lastRun' = [op |-> "chipRemove", writeOk |-> writeOk,
                   id |-> ToNumber(chips.list[c].dataId),
                   prev |-> selectedProducts,
                   threw |-> SaveRaises(writeOk),
                   effects |-> <<"render", "save">>]
    /\ UNCHANGED <<lastDisplayedProducts, categoryValue, pendingFetches>>
    /\ UNCHANGED <<chatVars, tipVars>>

\* the user picks another category: the handler starts loadProducts() and waits
CategoryChange(cat) ==
    /\ cat \in CategoryOptions
    /\ cat # categoryValue
    /\ Len(pendingFetches) < MaxPendingFetches
    /\ categoryValue' = cat
    /\ pendingFetches' = Append(pendingFetches, cat)
    /\ lastRun' = [op |-> "categoryChange"]
    /\ UNCHANGED <<selectedProducts, storage, chips, lastDisplayedProducts, cards,
                   toggleRun, writeHistory>>
    /\ UNCHANGED <<chatVars, tipVars>>

RemoveAt(s, k) == SubSeq(s, 1, k - 1) \o SubSeq(s, k + 1, Len(s))
\* products.filter((product) => product.category === selectedCategory)
FilterByCategory(products, selectedCategory) ==
    SelectSeq2(products,
               {p \in Range(products) :
                    StrictEq(GetProp(p, "category"), JStr(selectedCategory))})

\* the category read when the change was dispatched instead of after the await
SelectedCategoryAtIssue(issued, current) == issued

\* const selectedCategory = e.target.value, evaluated after await loadProducts():
\* the value the select element has when the fetch answers
SelectedCategory(issued, current) == current

\* the k-th outstanding catalog fetch answers: the rest of the change handler
LoadProductsResolve(k) ==
    /\ k \in 1..Len(pendingFetches)
    /\ pendingFetches' = RemoveAt(pendingFetches, k)
    /\ LET selectedCategory == SelectedCategory(pendingFetches[k], categoryValue)
           d == displayProducts(FilterByCategory(Catalog, selectedCategory),
                                selectedProducts)
       IN  /\ lastDisplayedProducts' = d.displayed
           /\ cards' = d.cards
    /\ lastRun' = [op |-> "displayProducts", issued |-> pendingFetches[k]]
    \* the cards are new elements: the pointer has entered none of them yet
    /\ hover' = NoHover
    /\ UNCHANGED <<selectedProducts, storage, chips, categoryValue, toggleRun,
                   writeHistory>>
    /\ UNCHANGED <<chatVars, productTooltip, hideTimers, fadeFrames>>

\* the k-th outstanding catalog fetch fails: the handler's promise rejects
LoadProductsReject(k) ==
    /\ k \in 1..Len(pendingFetches)
    /\ pendingFetches' = RemoveAt(pendingFetches, k)
    /\ lastRun' = [op |-> "loadProductsFailed"]
    /\ UNCHANGED <<selectedProducts, storage, chips, lastDisplayedProducts, cards,
                   categoryValue, toggleRun, writeHistory>>
    /\ UNCHANGED <<chatVars, tipVars>>

(***************************************************************************)
(* The hover tooltip.  Its position (top, left) is computed from the       *)
(* layout and read by nothing else, so it is not part of the state.        *)
(***************************************************************************)
\* the values that || and if (!x) take as false
Falsy(v) ==
    \/ v.t \in {"undefined", "null", "nan"}
    \/ v.t = "str" /\ v.s = ""
    \/ v.t = "num" /\ v.n = 0

\* the tooltip after showTooltipForCard(product, cardElement); .shown says
\* the function went past `if (!product) return` and requested a frame
showTooltipForCard(tip, product) ==
    IF Falsy(product) THEN [tip |-> tip, shown |-> FALSE]
    ELSE LET description == GetProp(product, "description") IN
         [tip |-> [text |-> IF Falsy(description) THEN "No description"
                            ELSE TemplateStr(description),
                   opacity |-> "0",
                   display |-> "block"],
          shown |-> TRUE]

\* the tooltip after the synchronous part of hideTooltip()
hideTooltip(tip) == [tip EXCEPT !.opacity = "0"]

\* the setTimeout callback of hideTooltip
HideCallback(tip) ==
    IF tip.opacity = "0" THEN [tip EXCEPT !.display = "none"] ELSE tip

\* the requestAnimationFrame callback of showTooltipForCard
FadeCallback(tip) == [tip EXCEPT !.opacity = "1"]

\* mouseenter on the c-th card
MouseEnter(c) ==
    /\ c \in 1..Len(cards)
    /\ hover.card = 0
    /\ LET id == ToNumber(cards[c].dataId)
           products == DisplayedOrEmpty(lastDisplayedProducts)
           at == FindProduct(products, id)
           product == IF at = 0 THEN JNull ELSE products[at]
           r == showTooltipForCard(productTooltip, product)
       IN  /\ r.shown => fadeFrames < MaxCallbacks
           /\ productTooltip' = r.tip
           /\ fadeFrames' = IF r.shown THEN fadeFrames + 1 ELSE fadeFrames
           /\ hover' = [card |-> c, reentry |-> r.shown /\ hideTimers > 0]
    /\ lastRun' = [op |-> "mouseenter"]
    /\ UNCHANGED <<hideTimers, selVars, chatVars>>

\* mouseleave on the card the pointer is in
MouseLeave ==
    /\ hover.card # 0
    /\ hideTimers < MaxCallbacks
    /\ productTooltip' = hideTooltip(productTooltip)
    /\ hideTimers' = hideTimers + 1
    /\ hover' = NoHover
    /\ lastRun' = [op |-> "mouseleave"]
    /\ UNCHANGED <<fadeFrames, selVars, chatVars>>

\* the oldest pending hide timer fires, 200 ms after its mouseleave
HideTimerFires ==
    /\ hideTimers > 0
    /\ hideTimers' = hideTimers - 1
    /\ productTooltip' = HideCallback(productTooltip)
    /\ lastRun' = [op |-> "hideTimer"]
    /\ UNCHANGED <<fadeFrames, hover, selVars, chatVars>>

\* the oldest pending animation-frame callback runs
FadeFrameRuns ==
    /\ fadeFrames > 0
    /\ fadeFrames' = fadeFrames - 1
    /\ productTooltip' = FadeCallback(productTooltip)
    /\ lastRun' = [op |-> "fadeFrame"]
    /\ UNCHANGED <<hideTimers, hover, selVars, chatVars>>

(***************************************************************************)
(* Chat and routine-generation handlers.  A disabled control fires no      *)
(* event: a click on the disabled generateBtn is not dispatched, and       *)
(* chatForm is not submitted while sendBtn, its submit button, is          *)
(* disabled.  Neither handler looks at the other's control.                *)
(***************************************************************************)
IsAdvisory(b) == b = [role |-> "assistant", text |-> Advisory]
AdvisoryCount == Cardinality({i \in 1..Len(chatWindow) : IsAdvisory(chatWindow[i])})

\* the control re-enabled at the end of the try block instead of in finally
DisabledAfterThrow(outcome) == outcome.threw

\* the control's disabled property once the handler has finished: the finally
\* block sets it to false after the try and after the catch alike
DisabledAfterFinally(outcome) == FALSE

\* the owners after a settle: a bubble that the settle appended is no placeholder
SettleOwners(owners, window) ==
    IF Len(window) > Len(owners) THEN Append(owners, 0) ELSE owners

\* submit of chatForm with the given characters in #userInput
ChatSubmit(input) ==
    /\ ~sendBtnDisabled
    /\ input \in UserInputs
    /\ LET text == CharsToStr(Trim(input)) IN
       IF text = ""
       THEN /\ lastRun' = [op |-> "chatSubmit", input |-> input, sent |-> FALSE]
            /\ UNCHANGED chatVars
       ELSE /\ requestsSent < MaxSubmissions
            /\ chatWindow' = appendChatMessage(appendChatMessage(chatWindow, "user", text),
                                               "assistant", Thinking)
            /\ conversationMessages' = PushMessage(conversationMessages, "user", text)
            /\ sendBtnDisabled' = TRUE
            /\ requestsSent' = requestsSent + 1
            /\ logOwner' = Append(logOwner, requestsSent + 1)
            /\ bubbleOwner' = bubbleOwner \o <<0, requestsSent + 1>>
            /\ chatCall' = [pc |-> "awaiting", sub |-> requestsSent + 1, text |-> text,
                            before |-> conversationMessages,
                            body |-> conversationMessages',
                            alone |-> genCall.pc = "idle"]
            /\ lastRun' = [op |-> "chatSubmit", input |-> input, sent |-> TRUE]
            /\ UNCHANGED <<generateBtnDisabled, genCall>>
    /\ UNCHANGED <<selVars, tipVars>>

\* the chat request settles with resp: the rest of the submit handler
ChatSettle(resp) ==
    /\ chatCall.pc = "awaiting"
    /\ resp \in Responses
    /\ LET outcome == sendMessageToOpenAI(resp) IN
       /\ chatWindow' = SettleWindow(chatWindow, outcome, "Error: ")
       /\ conversationMessages' = SettleLog(conversationMessages, outcome)
       /\ logOwner' = IF outcome.threw THEN logOwner ELSE Append(logOwner, chatCall.sub)
       /\ bubbleOwner' = SettleOwners(bubbleOwner, chatWindow')
       /\ lastRun' = [op |-> "chatSettle", call |-> chatCall, outcome |-> outcome]
       /\ sendBtnDisabled' = DisabledAfterFinally(outcome)
    /\ chatCall' = IdleCall
    /\ UNCHANGED <<generateBtnDisabled, genCall, requestsSent>>
    /\ UNCHANGED <<selVars, tipVars>>

\* the empty-selection test never taken
NeverNoItems(items) == FALSE

\* items.length === 0
HasNoItems(items) == Len(items) = 0

\* click on generateBtn
GenerateClick ==
    /\ ~generateBtnDisabled
    /\ LET items == getSelectedProductsArray(selectedProducts) IN
       IF HasNoItems(items)
       THEN /\ AdvisoryCount < MaxAdvisories
            /\ chatWindow' = appendChatMessage(chatWindow, "assistant", Advisory)
            /\ bubbleOwner' = Append(bubbleOwner, 0)
            /\ lastRun' = [op |-> "generate", sent |-> FALSE]
            /\ UNCHANGED <<conversationMessages, sendBtnDisabled, generateBtnDisabled,
                           chatCall, genCall, requestsSent, logOwner>>
       ELSE /\ requestsSent < MaxSubmissions
            /\ conversationMessages' =
                   PushMessage(conversationMessages, "user", UserInstruction(items))
            /\ chatWindow' = appendChatMessage(
                                 appendChatMessage(chatWindow, "user", GenerateBubble(items)),
                                 "assistant", Thinking)
            /\ generateBtnDisabled' = TRUE
            /\ requestsSent' = requestsSent + 1
            /\ logOwner' = Append(logOwner, requestsSent + 1)
            /\ bubbleOwner' = bubbleOwner \o <<0, requestsSent + 1>>
            /\ genCall' = [pc |-> "awaiting", sub |-> requestsSent + 1,
                           text |-> UserInstruction(items),
                           before |-> conversationMessages,
                           body |-> conversationMessages',
                           alone |-> chatCall.pc = "idle"]
            /\ lastRun' = [op |-> "generate", sent |-> TRUE]
            /\ UNCHANGED <<sendBtnDisabled, chatCall>>
    /\ UNCHANGED <<selVars, tipVars>>

\* the routine request settles with resp: the rest of the click handler
GenSettle(resp) ==
    /\ genCall.pc = "awaiting"
    /\ resp \in Responses
    /\ LET outcome == sendMessageToOpenAI(resp) IN
       /\ chatWindow' = SettleWindow(chatWindow, outcome, "Error generating routine: ")
       /\ conversationMessages' = SettleLog(conversationMessages, outcome)
       /\ logOwner' = IF outcome.threw THEN logOwner ELSE Append(logOwner, genCall.sub)
       /\ bubbleOwner' = SettleOwners(bubbleOwner, chatWindow')
       /\ lastRun' = [op |-> "genSettle", call |-> genCall, outcome |-> outcome]
       /\ generateBtnDisabled' = DisabledAfterFinally(outcome)
    /\ genCall' = IdleCall
    /\ UNCHANGED <<sendBtnDisabled, chatCall, requestsSent>>
    /\ UNCHANGED <<selVars, tipVars>>

(***************************************************************************)
(* Specifications.  SpecSelection runs the selection, persistence and      *)
(* catalog handlers, SpecChat the chat and routine handlers on the         *)
(* selection that startup loaded, Spec all of them.                        *)
(***************************************************************************)
NextSelection ==
    \/ \E c \in 1..NumProducts, writeOk \in BOOLEAN : CardClick(c, writeOk)
    \/ \E c \in 1..NumProducts, writeOk \in BOOLEAN : ChipRemoveClick(c, writeOk)
    \/ \E cat \in CategoryOptions : CategoryChange(cat)
    \/ \E k \in 1..MaxPendingFetches : LoadProductsResolve(k)
    \/ \E k \in 1..MaxPendingFetches : LoadProductsReject(k)
    \/ Reload

NextChat ==
    \/ \E input \in UserInputs : ChatSubmit(input)
    \/ \E resp \in Responses : ChatSettle(resp)
    \/ GenerateClick
    \/ \E resp \in Responses : GenSettle(resp)

\* toggleSelect called directly, over every displayed set the filter can produce
NextToggle ==
    \/ \E i \in 1..NumProducts, writeOk \in BOOLEAN : DirectToggle(JNum(i), writeOk)
    \/ \E cat \in CategoryOptions : CategoryChange(cat)
    \/ \E k \in 1..MaxPendingFetches : LoadProductsResolve(k)

\* browsing the catalog with every fetch answering, in any order
NextCatalog ==
    \/ \E cat \in CategoryOptions : CategoryChange(cat)
    \/ \E k \in 1..MaxPendingFetches : LoadProductsResolve(k)
    \/ \E c \in 1..NumProducts, writeOk \in BOOLEAN : CardClick(c, writeOk)

\* hovering over the cards of the displayed categories
NextTooltip ==
    \/ \E c \in 1..NumProducts : MouseEnter(c)
    \/ MouseLeave
    \/ HideTimerFires
    \/ FadeFrameRuns
    \/ \E cat \in CategoryOptions : CategoryChange(cat)
    \/ \E k \in 1..MaxPendingFetches : LoadProductsResolve(k)

\* one session: selecting and browsing with chat and routine requests between,
\* every write of the item succeeding
NextSession ==
    \/ \E c \in 1..NumProducts : CardClick(c, TRUE)
    \/ \E c \in 1..NumProducts : ChipRemoveClick(c, TRUE)
    \/ \E cat \in CategoryOptions : CategoryChange(cat)
    \/ \E k \in 1..MaxPendingFetches : LoadProductsResolve(k)
    \/ \E input \in UserInputs :
          requestsSent < MaxSessionRequests /\ ChatSubmit(input)
    \/ \E resp \in Responses : ChatSettle(resp)
    \/ requestsSent < MaxSessionRequests /\ GenerateClick
    \/ \E resp \in Responses : GenSettle(resp)

Next == NextSelection \/ NextChat \/ NextTooltip

SpecSelection == Init /\ [][NextSelection]_vars
SpecChat == Init /\ [][NextChat]_vars
\* every request to the worker eventually answers or fails
SpecChatFair ==
    /\ SpecChat
    /\ WF_vars(\E resp \in Responses : ChatSettle(resp))
    /\ WF_vars(\E resp \in Responses : GenSettle(resp))
SpecSession == Init /\ [][NextSession]_vars
SpecTooltip == Init /\ [][NextTooltip]_vars
SpecCatalog == Init /\ [][NextCatalog]_vars
SpecToggle == Init /\ [][NextToggle]_vars
Spec == Init /\ [][Next]_vars

(***************************************************************************)
(* Properties.                                                             *)
(***************************************************************************)
LastAssistantText(window) ==
    LET msgs == {i \in 1..Len(window) : window[i].role = "assistant"} IN
    window[CHOOSE i \in msgs : \A j \in msgs : j <= i].text
HasAssistantBubble(window, text) ==
    \E i \in 1..Len(window) : window[i] = [role |-> "assistant", text |-> text]
Settled == lastRun.op \in {"chatSettle", "genSettle"}
ErrorPrefix == IF lastRun.op = "chatSettle" THEN "Error: " ELSE "Error generating routine: "

\* C1: when the handler of a chat submission, made with non-empty text while no
\* other submission was in flight and answered successfully with R, finishes,
\* the log is the log before the submission followed by exactly {user: text}
\* and {assistant: R}, and the last assistant bubble reads R.
ChatRoundTrip ==
    (lastRun.op = "chatSettle" /\ lastRun.call.alone /\ ~lastRun.outcome.threw) =>
        /\ conversationMessages =
               lastRun.call.before
                 \o << [role |-> "user", content |-> lastRun.call.text],
                       [role |-> "assistant", content |-> lastRun.outcome.text] >>
        /\ LastAssistantText(chatWindow) = lastRun.outcome.text

\* C2: when the handler of a chat or routine submission whose request failed
\* finishes, the log is the log before the submission plus exactly its one
\* user turn, and the transcript has an assistant bubble with the error message.
FailedRoundTrip ==
    (Settled /\ lastRun.outcome.threw) =>
        /\ conversationMessages =
               Append(lastRun.call.before,
                      [role |-> "user", content |-> lastRun.call.text])
        /\ HasAssistantBubble(chatWindow, ErrorPrefix \o lastRun.outcome.text)

\* C3: after n card clicks on one id, starting from a store that does not hold
\* the id, the id is in the store iff n is odd, and the other entries of the
\* store are what they were.
ToggleParity ==
    toggleRun.active =>
        /\ MapHas(selectedProducts, toggleRun.id) <=> (toggleRun.n % 2 = 1)
        /\ MapDelete(selectedProducts, toggleRun.id) = toggleRun.base
ToggleParityWitness ==
    /\ toggleRun.active
    /\ toggleRun.n = 3
    /\ Len(toggleRun.base) = 1
    /\ Len(selectedProducts) = 2

\* C4: loading what was saved from a store S gives a store with exactly the
\* identifier -> record pairs of S.
SaveLoadRoundTrip ==
    (lastRun.op = "load" /\ storage = saveSelectedProducts(lastRun.prev, storage, TRUE)) =>
        Range(selectedProducts) = Range(lastRun.prev)
SaveLoadWitness ==
    /\ lastRun.op = "load"
    /\ MapKeys(lastRun.prev) = <<JNum(1), JNum(2)>>
    /\ storage = saveSelectedProducts(lastRun.prev, storage, TRUE)
    /\ Range(selectedProducts) = Range(lastRun.prev)

\* C5: a rendered card carries the selected marker iff its id is in the store.
CardsMatchStore ==
    \A i \in 1..Len(cards) :
        cards[i].selected <=> MapHas(selectedProducts, ToNumber(cards[i].dataId))
CardsMatchWitness ==
    /\ lastRun.op = "displayProducts"
    /\ \E i, j \in 1..Len(cards) : cards[i].selected /\ ~cards[j].selected

\* C6: a click on generate with an empty store appends exactly one assistant
\* advisory bubble, sends no request, and leaves the log and the (enabled)
\* generate control as they were.
EmptyGenerateShortCircuits ==
    [][(GenerateClick /\ Len(selectedProducts) = 0) =>
          /\ chatWindow' = Append(chatWindow, [role |-> "assistant", text |-> Advisory])
          /\ requestsSent' = requestsSent
          /\ genCall'.pc = "idle"
          /\ conversationMessages' = conversationMessages
          /\ ~generateBtnDisabled']_vars
EmptyGenerateWitness ==
    /\ lastRun.op = "generate"
    /\ Len(selectedProducts) = 0
    /\ chatWindow # <<>>
    /\ IsAdvisory(chatWindow[Len(chatWindow)])
    /\ requestsSent = 0

\* C7: a submit with empty or whitespace-only text changes neither the log, the
\* transcript nor the send control, and sends no request.
IsBlank(input) == \A i \in 1..Len(input) : input[i] \in WhiteSpace
BlankSubmitIsNoOp ==
    [][\A input \in UserInputs :
          (IsBlank(input) /\ ChatSubmit(input)) =>
              UNCHANGED <<conversationMessages, chatWindow, sendBtnDisabled,
                          requestsSent, chatCall>>]_vars
BlankSubmitWitness ==
    /\ lastRun.op = "chatSubmit"
    /\ lastRun.input # <<>>
    /\ IsBlank(lastRun.input)
    /\ ~lastRun.sent
    /\ Len(conversationMessages) > 1

\* C8: the first turn of the log is the system instruction and no other turn
\* has the system role; every step leaves the turns already in the log as they
\* are and at most appends to them.
IsPrefix(a, b) == Len(a) <= Len(b) /\ SubSeq(b, 1, Len(a)) = a
LogStartsWithSystem ==
    /\ conversationMessages # <<>>
    /\ conversationMessages[1] = SystemMessage
    /\ \A i \in 2..Len(conversationMessages) : conversationMessages[i].role # "system"
LogAppendOnly ==
    [](LogStartsWithSystem) /\ [][IsPrefix(conversationMessages, conversationMessages')]_vars
LogAppendOnlyWitness ==
    /\ Settled
    /\ lastRun.outcome.threw
    /\ Len(conversationMessages) >= 4

\* C9: every assistant turn of the log comes right after the user turn of the
\* same submission.
PairsNotInterleaved ==
    \A i \in 2..Len(conversationMessages) :
        conversationMessages[i].role = "assistant" =>
            /\ conversationMessages[i - 1].role = "user"
            /\ logOwner[i - 1] = logOwner[i]

\* C10: after the startup load, a stored value that is missing, unparseable or
\* of malformed shape (not a list, or a list with an element that is not a
\* product record) has left the store empty.
IsProductRecord(v) == v.t = "obj" /\ GetProp(v, "id").t = "num"
StoredMalformed(item) ==
    \/ ~item.present
    \/ ~JSONparse(item.text).ok
    \/ JSONparse(item.text).v.t # "arr"
    \/ \E e \in Range(JSONparse(item.text).v.e) : ~IsProductRecord(e)
MalformedLoadsEmpty ==
    (lastRun.op = "load" /\ StoredMalformed(storage)) => selectedProducts = <<>>

(***************************************************************************)
(* C11: toggleSelect on an id that is in the store removes the entry       *)
(* whether or not the id resolves in the displayed products; resolution is *)
(* needed only to insert, and an absent id that does not resolve leaves    *)
(* the store as it was.                                                    *)
(***************************************************************************)
ToggleRemovesPresent ==
    lastRun.op = "toggleCall" =>
        /\ lastRun.present => ~MapHas(selectedProducts, lastRun.id)
        /\ (~lastRun.present /\ lastRun.resolvable) => MapHas(selectedProducts, lastRun.id)
        /\ (~lastRun.present /\ ~lastRun.resolvable) => selectedProducts = lastRun.prev

(***************************************************************************)
(* C12: every handler run that mutates the store (card click and chip      *)
(* removal alike) first writes the item and then re-renders the chips.     *)
(***************************************************************************)
Mutated == lastRun.op \in {"toggleSelect", "chipRemove"} /\ lastRun.effects # <<>>
SaveThenRender ==
    Mutated => lastRun.effects = <<"save", "render">>

(***************************************************************************)
(* C13: when the write of the item fails during a card click or a chip     *)
(* removal, nothing is raised out of the handler, the Map is still changed *)
(* and the chips are re-rendered to show the Map.                          *)
(***************************************************************************)
\* the chips are one per entry of the store, in its order, or the placeholder
ChipsShow(store) ==
    /\ chips.placeholder <=> Len(store) = 0
    /\ Len(chips.list) = Len(store)
    /\ \A i \in 1..Len(store) :
          /\ chips.list[i].dataId = TemplateStr(store[i][1])
          /\ chips.list[i].name = TemplateStr(GetProp(store[i][2], "name"))
          /\ chips.list[i].brand = TemplateStr(GetProp(store[i][2], "brand"))
FailedWriteIsHarmless ==
    (Mutated /\ ~lastRun.writeOk) =>
        /\ ~lastRun.threw
        /\ MapHas(selectedProducts, lastRun.id) # MapHas(lastRun.prev, lastRun.id)
        /\ ChipsShow(selectedProducts)
\* a card click and a chip removal have both run with a failing write
FailedWriteWitness ==
    /\ Mutated /\ ~lastRun.writeOk
    /\ lastRun.op = "chipRemove"
    /\ Len(selectedProducts) = 1
    /\ storage = NoItem

(***************************************************************************)
(* C14: when a chat or routine request fails, the "...thinking..." bubble  *)
(* is overwritten with the error message, so once no request is awaited no *)
(* bubble still shows the placeholder text.                                *)
(***************************************************************************)
NoRequestInFlight == chatCall.pc = "idle" /\ genCall.pc = "idle"
NoPlaceholderLeft ==
    NoRequestInFlight => \A i \in 1..Len(chatWindow) : chatWindow[i].text # Thinking

(***************************************************************************)
(* C15: when a request succeeds, the reply is written into the placeholder *)
(* bubble that the same submission appended and into no other bubble,      *)
(* whatever was appended in between (another submission's placeholder, an  *)
(* error bubble, the advisory bubble).                                     *)
(***************************************************************************)
\* the step is the success path of the settling of submission sub
RepliedTo(call, sub, text) ==
    /\ call.pc = "awaiting" /\ call.sub = sub
    /\ call' = IdleCall
    /\ lastRun'.op \in {"chatSettle", "genSettle"}
    /\ lastRun'.call = call
    /\ ~lastRun'.outcome.threw /\ lastRun'.outcome.text = text
ReplyInOwnBubble ==
    [][\A sub \in 1..MaxSubmissions, text \in Replies :
          (RepliedTo(chatCall, sub, text) \/ RepliedTo(genCall, sub, text)) =>
              \E i \in 1..Len(chatWindow) :
                  /\ bubbleOwner[i] = sub
                  /\ chatWindow' = [chatWindow EXCEPT ![i].text = text]]_vars

(***************************************************************************)
(* C16: at most one request is outstanding at any moment: no chat or       *)
(* routine submission starts while an earlier one of either kind is        *)
(* awaited.                                                                *)
(***************************************************************************)
OneRequestAtATime ==
    ~(chatCall.pc = "awaiting" /\ genCall.pc = "awaiting")

(***************************************************************************)
(* C17: after several category changes whose fetches answer in any order,  *)
(* once every fetch has answered the rendered cards and the displayed      *)
(* products are the catalog filtered by the category chosen last.          *)
(***************************************************************************)
\* the ids of the catalog's products of the category
IdsOfCategory(cat) == {i \in 1..NumProducts : CategoryOf(i) = cat}
ShowsCategory(cat) ==
    /\ lastDisplayedProducts.defined
    /\ LET list == lastDisplayedProducts.list IN
       /\ Len(list) = Cardinality(IdsOfCategory(cat))
       /\ \A j \in 1..Len(list) : \E i \in IdsOfCategory(cat) : list[j] = Product(i)
       /\ \A j \in 1..(Len(list) - 1) :
             GetProp(list[j], "id").n < GetProp(list[j + 1], "id").n
       /\ Len(cards) = Len(list)
       /\ \A j \in 1..Len(list) : cards[j].dataId = TemplateStr(GetProp(list[j], "id"))
LatestCategoryShown ==
    (pendingFetches = <<>> /\ categoryValue \in CategoryOptions) =>
        ShowsCategory(categoryValue)
\* two changes were pending and the fetch of the earlier one answered last
LatestCategoryWitness ==
    /\ pendingFetches = <<>>
    /\ lastRun.op = "displayProducts"
    /\ lastRun.issued # categoryValue
    /\ ShowsCategory(categoryValue)

(***************************************************************************)
(* C18: each submit control is disabled exactly while its own request is   *)
(* awaited, and, every request eventually answering or failing, each       *)
(* submission is eventually followed by its control being enabled again,   *)
(* on the success path and on the failure path.                            *)
(***************************************************************************)
ControlsFollowRequests ==
    /\ [](sendBtnDisabled <=> chatCall.pc = "awaiting")
    /\ [](generateBtnDisabled <=> genCall.pc = "awaiting")
    /\ (sendBtnDisabled ~> ~sendBtnDisabled)
    /\ (generateBtnDisabled ~> ~generateBtnDisabled)
\* a routine request has failed and its control is enabled again
ControlsFollowWitness ==
    /\ lastRun.op = "genSettle"
    /\ lastRun.outcome.threw
    /\ ~generateBtnDisabled
    /\ sendBtnDisabled

(***************************************************************************)
(* C19: when the pointer leaves a card and enters a card again before the  *)
(* hide timer of the leave has fired, then once the pending timer and      *)
(* animation-frame callbacks have run, in any order, the tooltip is        *)
(* displayed and visible: an earlier leave's timer never hides the tooltip *)
(* of a later enter.                                                       *)
(***************************************************************************)
ReentryKeepsTooltip ==
    (hover.card # 0 /\ hover.reentry /\ hideTimers = 0 /\ fadeFrames = 0) =>
        productTooltip.display = "block" /\ productTooltip.opacity = "1"

(***************************************************************************)
(* C20: after card clicks and chip removals whose writes all succeed, once *)
(* one mutation has happened the stored list is the values of the Map in   *)
(* insertion order and the chips are one per entry in that order (or the   *)
(* placeholder for an empty Map); category changes and chat or routine     *)
(* submissions change neither the Map, nor the item, nor the chips.        *)
(***************************************************************************)
StoredIsStore ==
    /\ storage.present
    /\ JSONparse(storage.text) = [ok |-> TRUE, v |-> JArr(MapValues(selectedProducts))]
IsMutatingOp(op) == op \in {"toggleSelect", "chipRemove"}
StoreStorageChipsAgree ==
    /\ [](writeHistory = "ok" => StoredIsStore /\ ChipsShow(selectedProducts))
    /\ [][~IsMutatingOp(lastRun'.op) => UNCHANGED <<selectedProducts, storage, chips>>]_vars
\* two products were selected, a routine request has been answered and another
\* category is displayed since, every write having succeeded
StoreStorageChipsWitness ==
    /\ writeHistory = "ok"
    /\ Len(selectedProducts) = 2
    /\ lastRun.op = "displayProducts"
    /\ categoryValue = "moisturizers"
    /\ \E i \in 1..Len(conversationMessages) :
          conversationMessages[i].role = "assistant"
    /\ StoredIsStore /\ ChipsShow(selectedProducts)

====
